---- MODULE Spec2Model ----
(***************************************************************************)
(* A model of file_search.py: the column addressing helper, the keyword    *)
(* matcher, the per-document scanner and the batch runner.                 *)
(*                                                                         *)
(* Strings of the program are sequences of one-character strings, so that  *)
(* a text can be indexed and sliced: "cat" is <<"c","a","t">>.             *)
(***************************************************************************)
EXTENDS Integers, Sequences, FiniteSets, TLC

VARIABLES
    \* inputs of one call of search_files_in_folder_gui
    keywords,       \* the keywords argument: a sequence of Python values
    folderExists,   \* os.path.isdir(folder_path)
    listing,        \* os.listdir(folder_path): a sequence of catalogue ids
    hasProgress,    \* progress_callback is not None
    xlsxSupport,    \* EXCEL_XLSX_SUPPORT
    xlsSupport,     \* EXCEL_XLS_SUPPORT
    \* state of the call
    pc,             \* "idle", "scanning", "done", "rejected", "raised"
    files,          \* all_files_in_folder
    idx,            \* number of loop iterations started (the last value of i)
    found_docs,     \* found_keywords_in_docs: filename id -> found_details
    scans,          \* the scanner calls made so far: <<id, outcome>>
    logs,           \* the log events delivered to log_callback, in order
    progress,       \* the (current, total) pairs delivered to progress_callback
    returned,       \* <<>> until the call returns, then <<the returned dict>>
    compiles,       \* the number of re.compile calls made during the call
    \* successive calls with the same arguments over the unchanged directory
    run,            \* the number of the call in progress, from 1
    prev,           \* how the earlier calls ended: their result and events
    \* the window of DocumentSearchGUI, its worker threads and Tk's event queue
    entryText,      \* the text of keyword_entry
    folderState,    \* what the path in folder_path_var is on disk
    dirEntries,     \* os.listdir of that path, as catalogue ids
    controls,       \* the state option of the four widgets the search disables
    focus,          \* keyword_entry holds the keyboard focus
    dialog,         \* the last messagebox shown
    progressLabel,  \* the text of progress_label
    resultsText,    \* what results_text holds since it was last cleared
    workers,        \* one record per thread started by start_search_thread
    queue,          \* the callbacks registered by master.after(0, ...), oldest first
    displayed,      \* the searches whose display_results has run
    \* a call of the keyword pattern on one text
    mK, mT, mPc, mRes,
    \* a call of _number_to_excel_column
    colN, colPc, colRes

batchVars == <<keywords, folderExists, listing, hasProgress, xlsxSupport, xlsSupport,
               pc, files, idx, found_docs, scans, logs, progress, returned, compiles>>
matchVars == <<mK, mT, mPc, mRes>>
colVars == <<colN, colPc, colRes>>
twiceVars == <<run, prev>>
guiInputs == <<entryText, folderState, dirEntries>>
guiVars == <<guiInputs, controls, focus, dialog, progressLabel, resultsText, workers, queue,
             displayed>>
vars == <<batchVars, matchVars, colVars, twiceVars, guiVars>>

----------------------------------------------------------------------------
(* Bounds of the model.                                                    *)

MaxFiles == 3       \* directory entries in one listing
MaxKeywords == 2    \* keywords in one matcher call
MaxTextLen == 4     \* characters of a text in one matcher call
MaxCol == 710       \* column ordinals tried (covers 703 = AAA)
MaxRuns == 2        \* successive calls with the same arguments
MaxSearches == 2    \* worker threads started in one session of the window

----------------------------------------------------------------------------
(* Characters.                                                             *)

UpperLetters ==
    <<"A","B","C","D","E","F","G","H","I","J","K","L","M",
      "N","O","P","Q","R","S","T","U","V","W","X","Y","Z">>
LowerLetters ==
    <<"a","b","c","d","e","f","g","h","i","j","k","l","m",
      "n","o","p","q","r","s","t","u","v","w","x","y","z">>
Digits == <<"0","1","2","3","4","5","6","7","8","9">>

IndexOf(seq, c) == CHOOSE k \in 1..Len(seq) : seq[k] = c
InSeq(seq, c) == \E k \in 1..Len(seq) : seq[k] = c

\* chr(65 + k) for k in 0..25
Chr65(k) == UpperLetters[k + 1]

\* str.lower() on one character (re.IGNORECASE compares case-folded characters)
LowerChar(c) == IF InSeq(UpperLetters, c) THEN LowerLetters[IndexOf(UpperLetters, c)] ELSE c

\* \w of the re module over the characters used here: letters, digits, underscore
IsWordChar(c) == InSeq(UpperLetters, c) \/ InSeq(LowerLetters, c) \/ InSeq(Digits, c) \/ c = "_"

\* str.isspace() over the characters used here
IsSpace(c) == c \in {" ", "\n"}

----------------------------------------------------------------------------
(* _number_to_excel_column.                                                *)

RECURSIVE ColumnLoop(_, _)
ColumnLoop(n, result) ==
    IF n > 0
    THEN LET m == n - 1 IN ColumnLoop(m \div 26, <<Chr65(m % 26)>> \o result)
    ELSE result

\* the loop without "n -= 1": plain base 26, where 26 has no digit of its own
RECURSIVE ColumnLoopNoDecrement(_, _)
ColumnLoopNoDecrement(n, result) ==
    IF n > 0
    THEN ColumnLoopNoDecrement(n \div 26, <<Chr65(n % 26)>> \o result)
    ELSE result

NumberToExcelColumnNoDecrement(n) == ColumnLoopNoDecrement(n, <<>>)

NumberToExcelColumn(n) == ColumnLoop(n, <<>>)

\* str(n) for n >= 0, as the f-string f"{col_letter}{row_idx}" formats the row
RECURSIVE DecimalDigits(_)
DecimalDigits(n) ==
    IF n < 10 THEN <<Digits[n + 1]>>
    ELSE DecimalDigits(n \div 10) \o <<Digits[(n % 10) + 1]>>

\* f"{col_letter}{row_idx}"
CellRef(col_letter, row_idx) == col_letter \o DecimalDigits(row_idx)

----------------------------------------------------------------------------
(* The keyword pattern of search_document_for_keywords.                    *)

\* A Python value in the keywords list: a str, or an object that is not a str
Str(text) == [isStr |-> TRUE, text |-> text]
NonStr == [isStr |-> FALSE, text |-> <<>>]

\* re.escape(k) raises TypeError on a value that is neither str nor bytes, and
\* the call is outside every try block of the function
CompileRaises(kws) == \E a \in 1..Len(kws) : ~kws[a].isStr

\* re.escape makes every keyword a literal: the alternatives of (?:k1|k2|...)
PatternAlternatives(kws) == [a \in 1..Len(kws) |-> kws[a].text]

\* \b at position p of text (between text[p] and text[p+1], p in 0..Len(text))
WordAt(text, q) == q \in 1..Len(text) /\ IsWordChar(text[q])
Boundary(text, p) == WordAt(text, p) # WordAt(text, p + 1)

\* the literal k matches at index i of text under re.IGNORECASE
LiteralAt(text, i, k) ==
    /\ i + Len(k) - 1 <= Len(text)
    /\ \A j \in 1..Len(k) : LowerChar(text[i + j - 1]) = LowerChar(k[j])

\* keyword_pattern.search(text) is not None, for the pattern \b(?:k1|k2|...)\b.
\* A backtracking search tries every start index and every alternative.
PatternSearch(alts, text) ==
    \E i \in 1..(Len(text) + 1) : \E a \in 1..Len(alts) :
        /\ Boundary(text, i - 1)
        /\ LiteralAt(text, i, alts[a])
        /\ Boundary(text, i - 1 + Len(alts[a]))

\* str.strip() != ""
StripNonEmpty(text) == \E q \in 1..Len(text) : ~IsSpace(text[q])

----------------------------------------------------------------------------
(* Documents.  A directory entry is one of a small catalogue of documents; *)
(* the state holds catalogue ids.  A text <<>> is a page without text or   *)
(* an empty cell (None or "": the code tests only their truthiness).       *)
(* failAt = k > 0: the backend raises as the k-th unit (page, cell, or the *)
(* document itself for DOCX) is read; failAt = 0: it reads the whole file. *)

TCat == <<"c","a","t">>
TCatUpper == <<"C","A","T",".">>
TCats == <<"c","a","t","s">>
TACat == <<"a"," ","c","a","t">>
TDog == <<"d","o","g">>
TAl == <<"a","l">>
TBe == <<"b","e">>
TAlBe == <<"a","l"," ","b","e">>
TBlank == <<" ">>

Entry(stem, ext, isFile, kind, units, failAt) ==
    [stem |-> stem, ext |-> ext, isFile |-> isFile, kind |-> kind,
     units |-> units, failAt |-> failAt]

\* one cell of a worksheet at its spreadsheet position (row and column from 1)
Cell(sheet, row, col, value) == [sheet |-> sheet, row |-> row, col |-> col, value |-> value]

Catalogue == <<
    \* 1: a PDF, pages 1 and 4 hold "cat" as a word, page 2 has no text
    Entry("a", "pdf", TRUE, "pdf", <<TCatUpper, <<>>, TCats, TACat>>, 0),
    \* 2: a workbook: B3 holds both "al" and "be"; B3 exists on two sheets
    Entry("b", "xlsx", TRUE, "cells",
          <<Cell("S1", 3, 2, TAlBe), Cell("S1", 3, 28, TAl), Cell("S1", 4, 1, TDog),
            Cell("S1", 5, 1, <<>>), Cell("S2", 3, 2, TBe), Cell("S2", 12, 27, TCat)>>, 0),
    \* 3: a PDF with an upper-case extension whose second page cannot be read
    Entry("c", "PDF", TRUE, "pdf", <<TCat, TCat, TCat>>, 2),
    \* 4: a DOCX with the keyword in a table cell only
    Entry("d", "docx", TRUE, "docx", <<<<TDog, TCats>>, <<TAl, TCat>>>>, 0),
    \* 5: a legacy workbook
    Entry("e", "xls", TRUE, "cells",
          <<Cell("S1", 1, 1, TCat), Cell("S1", 1, 2, TBlank), Cell("S1", 2, 1, <<>>),
            Cell("S1", 2, 2, TAlBe), Cell("S2", 10, 703, TBe)>>, 0),
    \* 6: a DOCX that cannot be opened
    Entry("f", "docx", TRUE, "docx", <<<<TCat>>, <<>>>>, 1),
    \* 7: a workbook that fails after its first cell
    Entry("g", "xlsx", TRUE, "cells",
          <<Cell("S1", 1, 1, TCat), Cell("S1", 1, 2, TAl), Cell("S1", 2, 1, TBe)>>, 2),
    \* 8: a PDF without any keyword
    Entry("h", "pdf", TRUE, "pdf", <<TDog, TCats>>, 0),
    \* 9: a file of another type
    Entry("i", "txt", TRUE, "other", <<TCat>>, 0),
    \* 10: a directory whose name ends in .pdf
    Entry("j", "pdf", FALSE, "other", <<>>, 0)
>>

DocIds == 1..Len(Catalogue)

\* f.lower().endswith(ext): the extension is what follows the last dot
LowerExt(ext) ==
    CASE ext = "PDF" -> "pdf"
      [] ext = "DOCX" -> "docx"
      [] ext = "XLSX" -> "xlsx"
      [] ext = "XLS" -> "xls"
      [] OTHER -> ext

SUPPORTED_EXTENSIONS == {"pdf", "docx", "xlsx", "xls"}

\* the filter without the os.path.isfile test
EligibleAnyEntry(id) == LowerExt(Catalogue[id].ext) \in SUPPORTED_EXTENSIONS

\* os.path.isfile(...) and f.lower().endswith(SUPPORTED_EXTENSIONS)
Eligible(id) ==
    /\ LowerExt(Catalogue[id].ext) \in SUPPORTED_EXTENSIONS
    /\ Catalogue[id].isFile

----------------------------------------------------------------------------
(* search_document_for_keywords.                                           *)

\* the units the backend yields before it raises (all of them if it does not)
UnitsRead(doc) == IF doc.failAt = 0 THEN Len(doc.units) ELSE doc.failAt - 1

LogEvent(kind, id) == [kind |-> kind, file |-> id]

\* the for loop over enumerate(reader.pages, start=1), pages from..upto
RECURSIVE PdfLoopZeroBased(_, _, _, _)
PdfLoopZeroBased(alts, pages, from, upto) ==
    IF from > upto THEN <<>>
    ELSE (IF pages[from] # <<>> /\ PatternSearch(alts, pages[from])
          THEN <<from - 1>> ELSE <<>>)
         \o PdfLoopZeroBased(alts, pages, from + 1, upto)

PdfFoundZeroBased(alts, doc) == PdfLoopZeroBased(alts, doc.units, 1, UnitsRead(doc))

RECURSIVE PdfLoop(_, _, _, _)
PdfLoop(alts, pages, from, upto) ==
    IF from > upto THEN <<>>
    ELSE (IF pages[from] # <<>> /\ PatternSearch(alts, pages[from])
          THEN <<from>> ELSE <<>>)
         \o PdfLoop(alts, pages, from + 1, upto)

\* found_info of the PDF branch
PdfFound(alts, doc) == PdfLoop(alts, doc.units, 1, UnitsRead(doc))

\* "\n".join(doc_text)
RECURSIVE JoinLines(_)
JoinLines(texts) ==
    IF texts = <<>> THEN <<>>
    ELSE IF Len(texts) = 1 THEN texts[1]
    ELSE texts[1] \o <<"\n">> \o JoinLines(Tail(texts))

\* found_info of the DOCX branch: paragraphs first, then the table cells
DocxFound(alts, doc) ==
    IF doc.failAt # 0 THEN <<>>
    ELSE IF PatternSearch(alts, JoinLines(doc.units[1] \o doc.units[2]))
         THEN <<"Document Content">> ELSE <<>>

CellRecord(file_type, sheet, cell_ref, row, col) ==
    [type |-> "excel_cell", file_type |-> file_type, sheet |-> sheet,
     cell |-> cell_ref, row |-> row, col |-> col]

\* the record appended for a matching cell of an .xlsx sheet: openpyxl numbers
\* rows and columns from 1
XlsxRecord(c) ==
    LET row_idx == c.row
        col_idx == c.col
        col_letter == NumberToExcelColumn(col_idx)
    IN CellRecord(".xlsx", c.sheet, CellRef(col_letter, row_idx), row_idx, col_idx)

\* the .xls record with the cell reference built from the 0-based indices
XlsRecordNativeRef(sheet_name, row_idx, col_idx) ==
    LET col_letter == NumberToExcelColumn(col_idx)
    IN CellRecord(".xls", sheet_name, CellRef(col_letter, row_idx), row_idx + 1, col_idx + 1)

\* the record appended for a matching cell of an .xls sheet: xlrd numbers rows
\* and columns from 0
XlsRecord(sheet_name, row_idx, col_idx) ==
    LET col_letter == NumberToExcelColumn(col_idx + 1)
    IN CellRecord(".xls", sheet_name, CellRef(col_letter, row_idx + 1), row_idx + 1, col_idx + 1)

\* the nested loops over sheets, rows and cells of an .xlsx workbook
RECURSIVE XlsxLoop(_, _, _, _)
XlsxLoop(alts, cells, from, upto) ==
    IF from > upto THEN <<>>
    ELSE (IF cells[from].value # <<>> /\ PatternSearch(alts, cells[from].value)
          THEN <<XlsxRecord(cells[from])>> ELSE <<>>)
         \o XlsxLoop(alts, cells, from + 1, upto)

\* a loop that searches each keyword on its own and appends one record per hit
RECURSIVE XlsxLoopPerKeyword(_, _, _, _)
XlsxLoopPerKeyword(alts, cells, from, upto) ==
    IF from > upto THEN <<>>
    ELSE LET hits == SelectSeq(alts, LAMBDA k : PatternSearch(<<k>>, cells[from].value))
         IN [h \in 1..Len(hits) |-> XlsxRecord(cells[from])]
            \o XlsxLoopPerKeyword(alts, cells, from + 1, upto)

XlsxFoundPerKeyword(alts, doc) == XlsxLoopPerKeyword(alts, doc.units, 1, UnitsRead(doc))

\* found_info of the .xlsx branch
XlsxFound(alts, doc) == XlsxLoop(alts, doc.units, 1, UnitsRead(doc))

\* the nested loops over sheets, range(nrows) and range(ncols) of an .xls workbook
RECURSIVE XlsLoop(_, _, _, _)
XlsLoop(alts, cells, from, upto) ==
    IF from > upto THEN <<>>
    ELSE (IF StripNonEmpty(cells[from].value) /\ PatternSearch(alts, cells[from].value)
          THEN <<XlsRecord(cells[from].sheet, cells[from].row - 1, cells[from].col - 1)>>
          ELSE <<>>)
         \o XlsLoop(alts, cells, from + 1, upto)

\* found_info of the .xls branch
XlsFound(alts, doc) == XlsLoop(alts, doc.units, 1, UnitsRead(doc))

\* The whole call: what it returns, the log events it emits, and whether an
\* exception leaves it.
Outcome(found, log, raised) == [found |-> found, logs |-> log, raised |-> raised]

\* the same call with the .xls branch testing EXCEL_XLSX_SUPPORT
SearchDocumentOneFlag(id, kws, xlsxOk, xlsOk) ==
    LET doc == Catalogue[id]
        ext == LowerExt(doc.ext)
        alts == PatternAlternatives(kws)
        err == IF doc.failAt # 0 THEN <<LogEvent("error", id)>> ELSE <<>>
    IN  IF CompileRaises(kws) THEN Outcome(<<>>, <<>>, TRUE)
        ELSE IF ext = "pdf" THEN Outcome(PdfFound(alts, doc), err, FALSE)
        ELSE IF ext = "docx" THEN Outcome(DocxFound(alts, doc), err, FALSE)
        ELSE IF ext = "xlsx" THEN
            IF ~xlsxOk THEN Outcome(<<>>, <<LogEvent("no_support", id)>>, FALSE)
            ELSE Outcome(XlsxFound(alts, doc), err, FALSE)
        ELSE IF ext = "xls" THEN
            IF ~xlsxOk THEN Outcome(<<>>, <<LogEvent("no_support", id)>>, FALSE)
            ELSE Outcome(XlsFound(alts, doc), err, FALSE)
        ELSE Outcome(<<>>, <<>>, FALSE)

SearchDocumentForKeywords(id, kws, xlsxOk, xlsOk) ==
    LET doc == Catalogue[id]
        ext == LowerExt(doc.ext)
        alts == PatternAlternatives(kws)
        err == IF doc.failAt # 0 THEN <<LogEvent("error", id)>> ELSE <<>>
    IN  IF CompileRaises(kws) THEN Outcome(<<>>, <<>>, TRUE)
        ELSE IF ext = "pdf" THEN Outcome(PdfFound(alts, doc), err, FALSE)
        ELSE IF ext = "docx" THEN Outcome(DocxFound(alts, doc), err, FALSE)
        ELSE IF ext = "xlsx" THEN
            IF ~xlsxOk THEN Outcome(<<>>, <<LogEvent("no_support", id)>>, FALSE)
            ELSE Outcome(XlsxFound(alts, doc), err, FALSE)
        ELSE IF ext = "xls" THEN
            IF ~xlsOk THEN Outcome(<<>>, <<LogEvent("no_support", id)>>, FALSE)
            ELSE Outcome(XlsFound(alts, doc), err, FALSE)
        ELSE Outcome(<<>>, <<>>, FALSE)

----------------------------------------------------------------------------
(* display_results, the branch for .xlsx and .xls files: the cells of a    *)
(* file grouped by sheet, and the references of a sheet without repeats.   *)

\* sheets_dict[sheet_name], the cell records of one sheet in found order
SheetsDictCells(details, sheet_name) ==
    SelectSeq(details, LAMBDA cell_info : cell_info.sheet = sheet_name)

\* the keys of sheets_dict in insertion order
RECURSIVE SheetsDictKeys(_, _, _)
SheetsDictKeys(details, from, keys) ==
    IF from > Len(details) THEN keys
    ELSE SheetsDictKeys(details, from + 1,
            IF \E q \in 1..Len(keys) : keys[q] = details[from].sheet
            THEN keys ELSE Append(keys, details[from].sheet))

\* the loop that fills unique_cells
RECURSIVE UniqueCellsLoop(_, _, _)
UniqueCellsLoop(cells, from, unique_cells) ==
    IF from > Len(cells) THEN unique_cells
    ELSE UniqueCellsLoop(cells, from + 1,
            IF \E q \in 1..Len(unique_cells) : unique_cells[q] = cells[from].cell
            THEN unique_cells ELSE Append(unique_cells, cells[from].cell))

UniqueCells(cells) == UniqueCellsLoop(cells, 1, <<>>)

----------------------------------------------------------------------------
(* search_files_in_folder_gui.                                             *)

KeywordLists ==
    { <<>>, <<Str(TCat)>>, <<Str(TAl), Str(TBe)>>, <<Str(TCat), NonStr>>,
      <<Str(<<>>), Str(TBlank)>> }

\* os.listdir: entries with distinct names, here in catalogue order
Listings ==
    { s \in UNION { [1..n -> DocIds] : n \in 0..MaxFiles } :
        \A a, b \in 1..Len(s) : a < b => s[a] < s[b] }

EmptyDict == << >>

DictSet(d, key, value) ==
    [x \in (DOMAIN d) \cup {key} |-> IF x = key THEN value ELSE d[x]]

\* found_keywords_in_docs after an assignment that does not test found_details
StoreFoundAlways(d, id, found_details) == DictSet(d, id, found_details)

\* if found_details: found_keywords_in_docs[filename] = found_details
StoreFound(d, id, found_details) ==
    IF found_details # <<>> THEN DictSet(d, id, found_details) ELSE d

\* the list comprehension over os.listdir(folder_path)
AllFilesInFolder(entries) == SelectSeq(entries, Eligible)

\* the four widgets start_search_thread disables and display_results enables
Widgets == {"search_button", "browse_button", "keyword_entry", "clear_keywords_button"}

\* the window as _create_controls and _create_progress_area leave it
WindowCreated ==
    /\ controls = [b \in Widgets |-> "normal"]
    /\ focus = FALSE
    /\ dialog = "none"
    /\ progressLabel = "ready"
    /\ resultsText = <<>>
    /\ workers = <<>>
    /\ queue = <<>>
    /\ displayed = {}

GuiOff ==
    /\ entryText = <<>> /\ folderState = "missing" /\ dirEntries = <<>>
    /\ WindowCreated

InitPure ==
    /\ mK = <<>> /\ mT = <<>> /\ mPc = "off" /\ mRes = FALSE
    /\ colN = 0 /\ colPc = "off" /\ colRes = <<>>

Init ==
    /\ keywords \in KeywordLists
    /\ folderExists \in BOOLEAN
    /\ listing \in Listings
    /\ folderExists = FALSE => listing = <<>>
    /\ hasProgress \in BOOLEAN
    /\ xlsxSupport \in BOOLEAN
    /\ xlsSupport \in BOOLEAN
    /\ pc = "idle"
    /\ files = <<>>
    /\ idx = 0
    /\ found_docs = EmptyDict
    /\ scans = <<>>
    /\ logs = <<>>
    /\ progress = <<>>
    /\ returned = <<>>
    /\ compiles = 0
    /\ run = 1
    /\ prev = <<>>
    /\ InitPure
    /\ GuiOff

inputs == <<keywords, folderExists, listing, hasProgress, xlsxSupport, xlsSupport>>

\* lines 169-187: validation and enumeration
Start ==
    /\ pc = "idle"
    /\ \/ /\ keywords = <<>>
          /\ logs' = Append(logs, LogEvent("no_keywords", 0))
          /\ pc' = "rejected"
          /\ returned' = <<EmptyDict>>
          /\ UNCHANGED files
       \/ /\ keywords # <<>>
          /\ ~folderExists
          /\ logs' = Append(logs, LogEvent("folder_not_found", 0))
          /\ pc' = "rejected"
          /\ returned' = <<EmptyDict>>
          /\ UNCHANGED files
       \/ /\ keywords # <<>>
          /\ folderExists
          /\ AllFilesInFolder(listing) = <<>>
          /\ logs' = Append(logs, LogEvent("no_documents", 0))
          /\ pc' = "rejected"
          /\ returned' = <<EmptyDict>>
          /\ files' = AllFilesInFolder(listing)
       \/ /\ keywords # <<>>
          /\ folderExists
          /\ AllFilesInFolder(listing) # <<>>
          /\ files' = AllFilesInFolder(listing)
          /\ pc' = "scanning"
          /\ UNCHANGED <<logs, returned>>
    /\ UNCHANGED <<inputs, idx, found_docs, scans, progress, compiles, matchVars, colVars,
                   twiceVars, guiVars>>

\* lines 188-195: one iteration of the loop over all_files_in_folder.  An
\* exception that leaves the scanner is not caught here: it ends the call.
ProcessFile ==
    /\ pc = "scanning"
    /\ idx < Len(files)
    /\ LET i == idx + 1
           filename == files[i]
           total_files == Len(files)
           out == SearchDocumentForKeywords(filename, keywords, xlsxSupport, xlsSupport)
       IN  /\ idx' = i
           /\ logs' = Append(logs, LogEvent("processing", filename)) \o out.logs
           /\ progress' = IF hasProgress THEN Append(progress, <<i, total_files>>)
                           ELSE progress
           /\ scans' = Append(scans, [file |-> filename, out |-> out])
           /\ compiles' = compiles + 1
           /\ IF out.raised
              THEN /\ pc' = "raised"
                   /\ UNCHANGED found_docs
              ELSE /\ pc' = "scanning"
                   /\ found_docs' = StoreFound(found_docs, filename, out.found)
    /\ UNCHANGED <<inputs, files, returned, matchVars, colVars, twiceVars, guiVars>>

\* line 197: return found_keywords_in_docs
Return ==
    /\ pc = "scanning"
    /\ idx = Len(files)
    /\ pc' = "done"
    /\ returned' = <<found_docs>>
    /\ UNCHANGED <<inputs, files, idx, found_docs, scans, logs, progress, compiles,
                   matchVars, colVars, twiceVars, guiVars>>

Next == Start \/ ProcessFile \/ Return

Spec == Init /\ [][Next]_vars

----------------------------------------------------------------------------
(* The same call made again: same arguments, unchanged directory.  Every   *)
(* name of search_files_in_folder_gui and search_document_for_keywords is  *)
(* a local of the call, so the new call starts from its own initial        *)
(* values; the module holds no mutable state.                              *)

\* a loop counter kept from the call before
CarriedIndex(previous) == previous

\* for i, filename in enumerate(all_files_in_folder, start=1): from the start
NewCallIndex(previous) == 0

\* found_keywords_in_docs = {}: a new dict in every call
NewCallDict(previous) == EmptyDict

CallEnded == pc \in {"done", "rejected", "raised"}

CallRecord == [pc |-> pc, returned |-> returned, progress |-> progress, logs |-> logs]

Restart ==
    /\ CallEnded
    /\ run < MaxRuns
    /\ prev' = Append(prev, CallRecord)
    /\ run' = run + 1
    /\ pc' = "idle"
    /\ files' = <<>>
    /\ idx' = NewCallIndex(idx)
    /\ found_docs' = NewCallDict(found_docs)
    /\ scans' = <<>>
    /\ logs' = <<>>
    /\ progress' = <<>>
    /\ returned' = <<>>
    /\ compiles' = 0
    /\ UNCHANGED <<inputs, matchVars, colVars, guiVars>>

NextTwice == Start \/ ProcessFile \/ Return \/ Restart

SpecTwice == Init /\ [][NextTwice]_vars

----------------------------------------------------------------------------
(* One call of the keyword pattern on one text, over all small inputs.     *)

MatchChars == {"a", "A", "b", "+"}
MatchKeywords == { <<"a">>, <<"a","b">>, <<"B">>, <<"a","+">> }

SeqsUpTo(S, n) == UNION { [1..m -> S] : m \in 0..n }

InitBatchOff ==
    /\ keywords = <<>> /\ folderExists = FALSE /\ listing = <<>>
    /\ hasProgress = FALSE /\ xlsxSupport = FALSE /\ xlsSupport = FALSE
    /\ pc = "off" /\ files = <<>> /\ idx = 0 /\ found_docs = EmptyDict
    /\ scans = <<>> /\ logs = <<>> /\ progress = <<>> /\ returned = <<>>
    /\ compiles = 0 /\ run = 1 /\ prev = <<>>

InitMatch ==
    /\ mK \in { [a \in DOMAIN ks |-> Str(ks[a])] :
                 ks \in SeqsUpTo(MatchKeywords, MaxKeywords) \ {<<>>} }
    /\ mT \in SeqsUpTo(MatchChars, MaxTextLen)
    /\ mPc = "call"
    /\ mRes = FALSE
    /\ colN = 0 /\ colPc = "off" /\ colRes = <<>>
    /\ InitBatchOff
    /\ GuiOff

\* keyword_pattern = re.compile(...); keyword_pattern.search(text)
MatchCall ==
    /\ mPc = "call"
    /\ ~CompileRaises(mK)
    /\ mRes' = PatternSearch(PatternAlternatives(mK), mT)
    /\ mPc' = "ret"
    /\ UNCHANGED <<mK, mT, batchVars, colVars, twiceVars, guiVars>>

SpecMatch == InitMatch /\ [][MatchCall]_vars

----------------------------------------------------------------------------
(* One call of _number_to_excel_column, over the first MaxCol ordinals.    *)

InitCol ==
    /\ colN \in 1..MaxCol
    /\ colPc = "call"
    /\ colRes = <<>>
    /\ mK = <<>> /\ mT = <<>> /\ mPc = "off" /\ mRes = FALSE
    /\ InitBatchOff
    /\ GuiOff

ColCall ==
    /\ colPc = "call"
    /\ colRes' = NumberToExcelColumn(colN)
    /\ colPc' = "ret"
    /\ UNCHANGED <<colN, batchVars, matchVars, twiceVars, guiVars>>

SpecCol == InitCol /\ [][ColCall]_vars

----------------------------------------------------------------------------
(* The window: the GUI thread runs one handler at a time (a widget         *)
(* command, a key binding, or the oldest callback registered with          *)
(* master.after(0, ...)); every search runs search_files_in_folder_gui on  *)
(* a thread of its own, with log_message and update_progress as callbacks. *)
(* A worker is followed statement by statement where it calls back:        *)
(*   called         thread started, at line 169                            *)
(*   log_reject     inside log_callback of lines 171, 175 or 184           *)
(*   log_file       inside log_callback of line 189                        *)
(*   progress_file  inside progress_callback of line 191                   *)
(*   scan           at the call of search_document_for_keywords, line 193  *)
(*   log_scan       inside a log_callback made by the scanner              *)
(*   return         at line 399, holding the returned dict                 *)
(*   finished       display_results registered, thread over                *)
(*   crashed        an exception left perform_search_threaded, thread over *)
(* Tk: a binding made with widget.bind runs whatever the widget's state    *)
(* option is, and a widget that is disabled keeps the focus it has; the    *)
(* command of a disabled ttk.Button is not run, and a disabled entry does  *)
(* not take the focus.                                                     *)

RECURSIVE LStrip(_)
LStrip(t) == IF t = <<>> THEN <<>> ELSE IF IsSpace(Head(t)) THEN LStrip(Tail(t)) ELSE t

RECURSIVE RStrip(_)
RStrip(t) ==
    IF t = <<>> THEN <<>>
    ELSE IF IsSpace(t[Len(t)]) THEN RStrip(SubSeq(t, 1, Len(t) - 1)) ELSE t

\* str.strip()
Strip(t) == RStrip(LStrip(t))

RECURSIVE SplitLoop(_, _, _)
SplitLoop(t, cur, acc) ==
    IF t = <<>> THEN Append(acc, cur)
    ELSE IF Head(t) = "," THEN SplitLoop(Tail(t), <<>>, Append(acc, cur))
    ELSE SplitLoop(Tail(t), Append(cur, Head(t)), acc)

\* str.split(',')
SplitComma(t) == SplitLoop(t, <<>>, <<>>)

IsNonEmptyText(t) == t # <<>>

\* [kw.strip() for kw in keywords_input.split(',') if kw.strip()]
ParseKeywords(t) ==
    LET parts == SplitComma(Strip(t))
        kept == SelectSeq([a \in 1..Len(parts) |-> Strip(parts[a])], IsNonEmptyText)
    IN  [a \in 1..Len(kept) |-> Str(kept[a])]

EntryTexts ==
    { <<" ","c","a","t"," ",",">>, <<" ",","," ">> }

\* missing: no such path; file: a regular file; dir: a directory that can be
\* listed; unlistable: a directory os.listdir fails on (no read permission)
FolderStates == {"missing", "file", "dir", "unlistable"}

GuiListings == { <<>>, <<1>>, <<3, 5>> }

InitGui ==
    /\ entryText \in EntryTexts
    /\ folderState \in FolderStates
    /\ dirEntries \in GuiListings
    /\ folderState \notin {"dir", "unlistable"} => dirEntries = <<>>
    /\ WindowCreated
    /\ InitBatchOff
    /\ InitPure

Event(kind, search, arg) == [kind |-> kind, search |-> search, arg |-> arg]

NewWorker ==
    [pc |-> "called", files |-> <<>>, idx |-> 0, found |-> EmptyDict,
     pending |-> <<>>, details |-> <<>>]

\* the user clicks into the keyword entry
FocusEntry ==
    /\ controls["keyword_entry"] = "normal"
    /\ ~focus
    /\ focus' = TRUE
    /\ UNCHANGED <<guiInputs, controls, dialog, progressLabel, resultsText, workers, queue,
                   displayed, batchVars, matchVars, colVars, twiceVars>>

\* start_search_thread, lines 357-394
StartSearchThread ==
    LET search_keywords == ParseKeywords(entryText)
        id == Len(workers) + 1
    IN  IF folderState = "missing"
        THEN /\ dialog' = "error"
             /\ UNCHANGED <<controls, progressLabel, resultsText, workers, queue>>
        ELSE IF search_keywords = <<>>
        THEN /\ dialog' = "warning"
             /\ UNCHANGED <<controls, progressLabel, resultsText, workers, queue>>
        ELSE /\ Len(workers) < MaxSearches
             /\ resultsText' = <<>>
             /\ queue' = Append(queue, Event("log", id, LogEvent("starting", 0)))
             /\ controls' = [b \in Widgets |-> "disabled"]
             /\ progressLabel' = "discovering"
             /\ workers' = Append(workers, NewWorker)
             /\ UNCHANGED dialog

\* the Search Documents button, command=self.start_search_thread
ClickSearch ==
    /\ controls["search_button"] = "normal"
    /\ StartSearchThread
    /\ UNCHANGED <<guiInputs, focus, displayed, batchVars, matchVars, colVars, twiceVars>>

\* keyword_entry.bind("<Return>", self.start_search_thread)
PressReturn ==
    /\ focus
    /\ StartSearchThread
    /\ UNCHANGED <<guiInputs, focus, displayed, batchVars, matchVars, colVars, twiceVars>>

\* the GUI loop runs the oldest registered callback: _insert_log,
\* _update_progress_gui or display_results
Dispatch ==
    /\ queue # <<>>
    /\ LET ev == Head(queue)
       IN  /\ queue' = Tail(queue)
           /\ \/ /\ ev.kind = "log"
                 /\ resultsText' = Append(resultsText, ev)
                 /\ UNCHANGED <<controls, progressLabel, displayed>>
              \/ /\ ev.kind = "progress"
                 /\ progressLabel' = IF ev.arg[2] > 0 THEN "processing" ELSE "starting"
                 /\ UNCHANGED <<controls, resultsText, displayed>>
              \/ /\ ev.kind = "display"
                 /\ progressLabel' = "complete"
                 /\ controls' = [b \in Widgets |-> "normal"]
                 /\ resultsText' = Append(resultsText, ev)
                 /\ displayed' = displayed \cup {ev.search}
    /\ UNCHANGED <<guiInputs, focus, dialog, workers, batchVars, matchVars, colVars,
                   twiceVars>>

\* line 188: the next iteration, which opens with the log callback of line
\* 189, or the end of the loop
LoopNext(w) ==
    IF w.idx < Len(w.files)
    THEN [w EXCEPT !.idx = @ + 1, !.pc = "log_file",
                   !.pending = <<LogEvent("processing", w.files[w.idx + 1])>>]
    ELSE [w EXCEPT !.pc = "return"]

\* lines 194-195, then the loop header
StoreAndLoop(w, found_details) ==
    LoopNext([w EXCEPT !.found = StoreFound(@, w.files[w.idx], found_details),
                       !.details = <<>>, !.pending = <<>>])

Reject(w, kind) == [w EXCEPT !.pc = "log_reject", !.pending = <<LogEvent(kind, 0)>>]

WorkerUnchanged ==
    UNCHANGED <<guiInputs, controls, focus, dialog, progressLabel, resultsText, displayed,
                batchVars, matchVars, colVars, twiceVars>>

\* lines 169-187 on the worker thread; os.listdir is inside no try
WorkerEnumerate ==
    \E s \in DOMAIN workers :
        LET w == workers[s]
            all_files_in_folder == AllFilesInFolder(dirEntries)
        IN  /\ w.pc = "called"
            /\ workers' = [workers EXCEPT ![s] =
                   IF ParseKeywords(entryText) = <<>> THEN Reject(w, "no_keywords")
                   ELSE IF folderState \in {"missing", "file"}
                        THEN Reject(w, "folder_not_found")
                   ELSE IF folderState = "unlistable" THEN [w EXCEPT !.pc = "crashed"]
                   ELSE IF all_files_in_folder = <<>>
                        THEN Reject([w EXCEPT !.files = all_files_in_folder], "no_documents")
                   ELSE LoopNext([w EXCEPT !.files = all_files_in_folder])]
            /\ UNCHANGED queue
            /\ WorkerUnchanged

\* log_message returns: master.after(0, self._insert_log, message, tag)
WorkerExitLog ==
    \E s \in DOMAIN workers :
        LET w == workers[s]
        IN  /\ w.pc \in {"log_reject", "log_file", "log_scan"}
            /\ queue' = Append(queue, Event("log", s, Head(w.pending)))
            /\ workers' = [workers EXCEPT ![s] =
                   IF w.pc = "log_reject" THEN [w EXCEPT !.pc = "return", !.pending = <<>>]
                   ELSE IF w.pc = "log_file"
                        THEN [w EXCEPT !.pc = "progress_file", !.pending = <<>>]
                   ELSE IF Tail(w.pending) # <<>> THEN [w EXCEPT !.pending = Tail(@)]
                   ELSE StoreAndLoop(w, w.details)]
            /\ WorkerUnchanged

\* update_progress returns: master.after(0, self._update_progress_gui, i, total)
WorkerExitProgress ==
    \E s \in DOMAIN workers :
        LET w == workers[s]
        IN  /\ w.pc = "progress_file"
            /\ queue' = Append(queue, Event("progress", s, <<w.idx, Len(w.files)>>))
            /\ workers' = [workers EXCEPT ![s] = [w EXCEPT !.pc = "scan"]]
            /\ WorkerUnchanged

\* line 193: the scanner runs up to its first log callback, or to its end
WorkerScan ==
    \E s \in DOMAIN workers :
        LET w == workers[s]
            out == SearchDocumentForKeywords(w.files[w.idx], ParseKeywords(entryText),
                                             xlsxSupport, xlsSupport)
        IN  /\ w.pc = "scan"
            /\ workers' = [workers EXCEPT ![s] =
                   IF out.raised THEN [w EXCEPT !.pc = "crashed"]
                   ELSE IF out.logs # <<>>
                        THEN [w EXCEPT !.pc = "log_scan", !.pending = out.logs,
                                       !.details = out.found]
                   ELSE StoreAndLoop(w, out.found)]
            /\ UNCHANGED queue
            /\ WorkerUnchanged

\* line 399: self.master.after(0, self.display_results, results, search_keywords)
WorkerFinish ==
    \E s \in DOMAIN workers :
        LET w == workers[s]
        IN  /\ w.pc = "return"
            /\ queue' = Append(queue, Event("display", s, w.found))
            /\ workers' = [workers EXCEPT ![s] = [w EXCEPT !.pc = "finished"]]
            /\ WorkerUnchanged

NextGui ==
    \/ FocusEntry
    \/ ClickSearch
    \/ PressReturn
    \/ Dispatch
    \/ WorkerEnumerate
    \/ WorkerExitLog
    \/ WorkerExitProgress
    \/ WorkerScan
    \/ WorkerFinish

SpecGui == InitGui /\ [][NextGui]_vars

----------------------------------------------------------------------------
(* Properties.                                                             *)

Range(seq) == { seq[k] : k \in 1..Len(seq) }

\* the scanner calls in which the backend raised inside the try block
ExtractionFailed(s) == \E l \in Range(s.out.logs) : l.kind = "error" /\ l.file = s.file

\* C1: in every run that reaches the loop with n eligible files and a progress
\* callback, the callback is invoked exactly n times, with (1,n), (2,n), ...,
\* (n,n) in that order.  Fails on the code: see C10.
C1_ProgressOncePerFile ==
    /\ hasProgress => progress = [k \in 1..idx |-> <<k, Len(files)>>]
    /\ (hasProgress /\ pc \in {"done", "raised"}) => Len(progress) = Len(files)

\* C2: a document whose extraction raises is logged by name, contributes no
\* match and is absent from the result, and the files after it are processed.
C2_FailedDocumentContributesNothing ==
    \A k \in 1..Len(scans) :
        ExtractionFailed(scans[k]) =>
            /\ LogEvent("error", scans[k].file) \in Range(logs)
            /\ scans[k].out.found = <<>>
            /\ scans[k].file \notin DOMAIN found_docs
            /\ pc = "done" => Len(scans) = Len(files)

\* eligibility as the specification words it: a regular file whose lower-cased
\* extension is one of the four formats
IsRegularSupportedFile(id) ==
    /\ Catalogue[id].isFile
    /\ LowerExt(Catalogue[id].ext) \in {"pdf", "docx", "xlsx", "xls"}

NothingToScan ==
    \/ keywords = <<>>
    \/ ~folderExists
    \/ \A k \in 1..Len(listing) : ~IsRegularSupportedFile(listing[k])

\* C3: with no keyword, no such directory or no eligible file, the call returns
\* an empty result after exactly one explanatory log event, no progress event
\* and no scan.
C3_RejectedWithoutScanning ==
    (NothingToScan /\ pc # "idle") =>
        /\ pc = "rejected"
        /\ returned = <<EmptyDict>>
        /\ Len(logs) = 1
        /\ logs[1].kind \in {"no_keywords", "folder_not_found", "no_documents"}
        /\ progress = <<>>
        /\ scans = <<>>

\* a directory that exists and has entries, none of them eligible, was rejected
C3_Witness ==
    /\ pc = "rejected"
    /\ keywords # <<>>
    /\ folderExists
    /\ Len(listing) = 2
    /\ logs = <<LogEvent("no_documents", 0)>>

ScannedFiles == { scans[k].file : k \in 1..Len(scans) }

KeysAreScannedMatches(d) ==
    \A id \in DOMAIN d :
        /\ IsRegularSupportedFile(id)
        /\ id \in Range(listing)
        /\ d[id] # <<>>
        /\ \E k \in 1..Len(scans) : scans[k].file = id /\ scans[k].out.found = d[id]

\* C4: every key of the result, during the run and on return, is an eligible
\* file already scanned, with a non-empty location list; after the run, every
\* eligible file whose scan found a location is a key.
C4_ResultHoldsExactlyTheMatches ==
    /\ KeysAreScannedMatches(found_docs)
    /\ returned # <<>> => KeysAreScannedMatches(returned[1])
    /\ pc = "done" =>
          /\ \A k \in 1..Len(listing) :
                IsRegularSupportedFile(listing[k]) => listing[k] \in ScannedFiles
          /\ \A k \in 1..Len(scans) :
                scans[k].out.found # <<>> =>
                    /\ scans[k].file \in DOMAIN returned[1]
                    /\ returned[1][scans[k].file] = scans[k].out.found

\* a completed run over three files, two with matches and one without
C4_Witness ==
    /\ pc = "done"
    /\ Len(scans) = 3
    /\ Cardinality(DOMAIN returned[1]) = 2

\* the standard letters-to-number rule: A = 1, ..., Z = 26, each further letter
\* multiplies what precedes it by 26
RECURSIVE ExcelColumnToNumber(_)
ExcelColumnToNumber(letters) ==
    IF letters = <<>> THEN 0
    ELSE 26 * ExcelColumnToNumber(SubSeq(letters, 1, Len(letters) - 1))
         + IndexOf(UpperLetters, letters[Len(letters)])

ExpectedLetters(n) ==
    CASE n = 1 -> <<"A">>
      [] n = 26 -> <<"Z">>
      [] n = 27 -> <<"A","A">>
      [] n = 28 -> <<"A","B">>
      [] n = 702 -> <<"Z","Z">>
      [] n = 703 -> <<"A","A","A">>
      [] OTHER -> NumberToExcelColumn(n)

\* C6: _number_to_excel_column terminates for n >= 1 (the loop variable falls
\* at every iteration and stays >= 0), returns the bijective base-26 letters,
\* is injective, and the letters convert back to n.
C6_ColumnLettersRoundTrip ==
    /\ (colPc = "call" /\ colN > 0) => (colN - 1) \div 26 < colN /\ (colN - 1) \div 26 >= 0
    /\ colPc = "ret" =>
          /\ colRes # <<>>
          /\ \A k \in 1..Len(colRes) : InSeq(UpperLetters, colRes[k])
          /\ colRes = ExpectedLetters(colN)
          /\ ExcelColumnToNumber(colRes) = colN
          /\ \A m \in 1..MaxCol : m # colN => NumberToExcelColumn(m) # colRes

C6_Witness == colPc = "ret" /\ colN = 703 /\ colRes = <<"A","A","A">>

\* a cell reference split into its letters and its digits, read back as numbers
LettersOf(ref) == SelectSeq(ref, LAMBDA c : InSeq(UpperLetters, c))
DigitsOf(ref) == SelectSeq(ref, LAMBDA c : InSeq(Digits, c))

RECURSIVE DecimalToNumber(_)
DecimalToNumber(ds) ==
    IF ds = <<>> THEN 0
    ELSE 10 * DecimalToNumber(SubSeq(ds, 1, Len(ds) - 1)) + IndexOf(Digits, ds[Len(ds)]) - 1

IsCellFile(id) == LowerExt(Catalogue[id].ext) \in {"xlsx", "xls"}

\* C7: every cell record has row >= 1 and col >= 1, both the position of the
\* cell in its sheet whatever the backend counts from, and its 'cell' field is
\* the letters of col followed by the decimal row.
C7_CellRecordConsistent ==
    \A k \in 1..Len(scans) :
        IsCellFile(scans[k].file) =>
            \A j \in 1..Len(scans[k].out.found) :
                LET r == scans[k].out.found[j] IN
                /\ r.row >= 1
                /\ r.col >= 1
                /\ r.cell = LettersOf(r.cell) \o DigitsOf(r.cell)
                /\ ExcelColumnToNumber(LettersOf(r.cell)) = r.col
                /\ DecimalToNumber(DigitsOf(r.cell)) = r.row
                /\ \E c \in Range(Catalogue[scans[k].file].units) :
                      c.sheet = r.sheet /\ c.row = r.row /\ c.col = r.col

\* the .xls cell at row 10, column 703 of sheet S2 was reported as AAA10
C7_Witness ==
    \E k \in 1..Len(scans) : \E j \in 1..Len(scans[k].out.found) :
        /\ LowerExt(Catalogue[scans[k].file].ext) = "xls"
        /\ scans[k].out.found[j].cell = <<"A","A","A","1","0">>
        /\ scans[k].out.found[j].row = 10
        /\ scans[k].out.found[j].col = 703

\* keyword k occurs in text as a whole word: some occurrence, compared without
\* regard to case, is not part of a larger token (no word character touches
\* it on either side)
OccursAsWholeWord(k, text) ==
    \E i \in 1..(Len(text) + 1) :
        /\ LiteralAt(text, i, k)
        /\ ~WordAt(text, i - 1)
        /\ ~WordAt(text, i + Len(k))

\* C5: the matcher reports a match if and only if some keyword occurs in the
\* text, case-insensitively, as a whole word; never as part of a larger token.
C5_MatchIffWholeWord ==
    mPc = "ret" =>
        (mRes <=> \E a \in 1..Len(mK) : OccursAsWholeWord(mK[a].text, mT))

PdfScans == { k \in 1..Len(scans) :
                LowerExt(Catalogue[scans[k].file].ext) = "pdf" /\ ~scans[k].out.raised }

\* the pages of a PDF whose text was extracted (all of them unless the reader
\* raised on the way) and is non-empty and matches
MatchingPages(id) ==
    { p \in 1..UnitsRead(Catalogue[id]) :
        /\ Catalogue[id].units[p] # <<>>
        /\ PatternSearch(PatternAlternatives(keywords), Catalogue[id].units[p]) }

\* C8: the list returned for a PDF holds exactly the 1-based numbers of the
\* pages whose extracted text is non-empty and matches, strictly ascending; a
\* page without text adds no entry and no log event.
C8_PdfPagesAscending ==
    \A k \in PdfScans :
        LET f == scans[k].out.found
            doc == Catalogue[scans[k].file]
        IN  /\ \A a, b \in 1..Len(f) : a < b => f[a] < f[b]
            /\ Range(f) = MatchingPages(scans[k].file)
            /\ \A p \in 1..Len(doc.units) : doc.units[p] = <<>> => p \notin Range(f)
            /\ doc.failAt = 0 => scans[k].out.logs = <<>>

\* the four-page PDF whose page 2 has no text was scanned and gave pages 1 and 4
C8_Witness ==
    \E k \in PdfScans :
        /\ scans[k].file = 1
        /\ Catalogue[1].units[2] = <<>>
        /\ scans[k].out.found = <<1, 4>>
        /\ scans[k].out.logs = <<>>

CellScans == { k \in 1..Len(scans) : IsCellFile(scans[k].file) /\ ~scans[k].out.raised }

\* the index of the first record of a sheet's group that carries a reference
FirstIndex(cells, ref) == CHOOSE q \in 1..Len(cells) :
    cells[q].cell = ref /\ \A h \in 1..(q - 1) : cells[h].cell # ref

\* C9: in the result for a workbook the records of a sheet are together, a
\* cell reference appears at most once per sheet (also when several keywords
\* hit the cell), and the references shown for a sheet are those found, each
\* once, in the order of their first appearance.
C9_CellsOncePerSheet ==
    \A k \in CellScans :
        LET f == scans[k].out.found IN
        /\ \A a, b \in 1..Len(f) :
              (a < b /\ f[a].sheet = f[b].sheet) =>
                  /\ f[a].cell # f[b].cell
                  /\ \A m \in a..b : f[m].sheet = f[a].sheet
        /\ \A q \in 1..Len(SheetsDictKeys(f, 1, <<>>)) :
              LET cells == SheetsDictCells(f, SheetsDictKeys(f, 1, <<>>)[q])
                  u == UniqueCells(cells)
              IN  /\ Range(u) = { cells[h].cell : h \in 1..Len(cells) }
                  /\ Len(u) = Len(cells)
                  /\ \A a, b \in 1..Len(u) :
                        a < b => FirstIndex(cells, u[a]) < FirstIndex(cells, u[b])

\* cell B3 of sheet S1 holds both keywords and was reported exactly once
C9_Witness ==
    \E k \in CellScans :
        /\ scans[k].file = 2
        /\ PatternSearch(<<keywords[1].text>>, Catalogue[2].units[1].value)
        /\ PatternSearch(<<keywords[2].text>>, Catalogue[2].units[1].value)
        /\ Cardinality({ j \in 1..Len(scans[k].out.found) :
                /\ scans[k].out.found[j].sheet = "S1"
                /\ scans[k].out.found[j].cell = <<"B","3">> }) = 1
        /\ UniqueCells(SheetsDictCells(scans[k].out.found, "S1")) = <<<<"B","3">>, <<"A","B","3">>>>

\* C10: an exception that leaves the scanner for one file is caught by the
\* batch runner and logged; the remaining files are processed and the call
\* returns a result instead of raising.
C10_ScannerExceptionCaught ==
    \A k \in 1..Len(scans) :
        scans[k].out.raised =>
            /\ pc # "raised"
            /\ LogEvent("error", scans[k].file) \in Range(logs)
            /\ pc = "done" => Len(scans) = Len(files)

\* the backend that reads this file is not installed
BackendMissing(id) ==
    \/ LowerExt(Catalogue[id].ext) = "xlsx" /\ ~xlsxSupport
    \/ LowerExt(Catalogue[id].ext) = "xls" /\ ~xlsSupport

AllBlank(kws) == \A a \in 1..Len(kws) : kws[a].isStr /\ ~StripNonEmpty(kws[a].text)

\* C14: a keyword list whose members are all empty after trimming is treated
\* as the empty list: the call is rejected with an empty result, no document
\* is scanned and no progress event is emitted.
C14_BlankKeywordsRejected ==
    (AllBlank(keywords) /\ pc # "idle") =>
        /\ pc = "rejected"
        /\ returned = <<EmptyDict>>
        /\ scans = <<>>
        /\ progress = <<>>

\* C15: the pattern is compiled once in a run, however many files there are.
C15_CompiledOncePerRun == pc = "done" => compiles = 1

InCallback(w) == w.pc \in {"log_reject", "log_file", "log_scan", "progress_file"}

InScanner(w) == w.pc \in {"scan", "log_scan"}

\* C12: at no state are two invocations of the log and progress callbacks in
\* progress at the same time, and no two files are being scanned at the same
\* time.
C12_CallbacksSerialized ==
    /\ Cardinality({s \in DOMAIN workers : InCallback(workers[s])}) <= 1
    /\ Cardinality({s \in DOMAIN workers : InScanner(workers[s])}) <= 1

\* C16: at most one search is in flight: a worker started and its
\* display_results not yet run.
C16_AtMostOneInFlight ==
    Cardinality({s \in DOMAIN workers : s \notin displayed}) <= 1

ThreadOver(w) == w.pc \in {"finished", "crashed"}

\* C17: once the worker of a search is over and the GUI loop has run every
\* callback that search registered, display_results of that search has run;
\* with every search so settled the four controls are enabled again.
C17_SearchEndsInDisplay ==
    /\ \A s \in DOMAIN workers :
           (/\ ThreadOver(workers[s])
            /\ \A q \in DOMAIN queue : queue[q].search # s) => s \in displayed
    /\ ((\A s \in DOMAIN workers : ThreadOver(workers[s])) /\ queue = <<>>) =>
           \A b \in Widgets : controls[b] = "normal"

====
